---- MODULE Spec2Model ----
(***************************************************************************)
(* A model of codebase-extractor: the arguments, the root check, the       *)
(* folder canonicalisation and the batch loop of main() (main_logic.py),   *)
(* and the ExtractionSession, the checkbox and input handlers and the      *)
(* batch loop of the Textual app (tui.py).                                 *)
(*                                                                         *)
(* A folder is the sequence of its path segments below root_path; the      *)
(* empty sequence is root_path itself.                                     *)
(***************************************************************************)
EXTENDS Integers, Sequences, FiniteSets, TLC

\* ------------------------------------------------------------------ bounds
\* Longest list of selected options the checkbox prompt returns.
MaxSel == 3

\* ------------------------------------------------------- the folder tree
\* Default of the "how many levels deep" prompt: get_folder_choices offers
\* folders down to this depth.
ScanDepth == 3

\* Folder names of the modelled tree.
Names == {"a", "b", "c"}

Range(s) == {s[i] : i \in 1..Len(s)}

\* Sequences over S of length 0..n.
SeqsUpTo(S, n) == UNION {[1..k -> S] : k \in 0..n}

\* The folders below root_path that the prompt offers: every path of one to
\* ScanDepth segments in which no name repeats.
Dirs ==
    {p \in SeqsUpTo(Names, ScanDepth) :
        /\ Len(p) >= 1
        /\ \A i, j \in 1..Len(p) : i # j => p[i] # p[j]}

\* len(p.parts), counted from root_path (the root's own parts add the same
\* number to every path and do not change the order).
Parts(p) == Len(p)

\* PurePath.is_relative_to: path is parent or lies below it.
IsRelativeTo(path, parent) ==
    /\ Len(parent) <= Len(path)
    /\ SubSeq(path, 1, Len(parent)) = parent

\* sorted(selected_paths, key=lambda p: len(p.parts)) is a stable sort:
\* insert x behind every element whose key is not greater.
RECURSIVE InsertByParts(_, _)
InsertByParts(s, x) ==
    IF s = <<>> THEN <<x>>
    ELSE IF Parts(s[Len(s)]) <= Parts(x) THEN Append(s, x)
    ELSE Append(InsertByParts(SubSeq(s, 1, Len(s) - 1), x), s[Len(s)])

RECURSIVE SortedFrom(_, _)
SortedFrom(acc, s) ==
    IF s = <<>> THEN acc
    ELSE SortedFrom(InsertByParts(acc, Head(s)), Tail(s))

\* Mutant: the selection is left in the order the prompt returned it.
SortByPartsUnsorted(s) == s

\* Mutant: deepest paths first.
RECURSIVE SortByPartsDescending(_)
SortByPartsDescending(s) ==
    IF s = <<>> THEN <<>>
    ELSE LET d == CHOOSE x \in {Parts(s[i]) : i \in 1..Len(s)} :
                    \A i \in 1..Len(s) : Parts(s[i]) <= x
         IN  SelectSeq(s, LAMBDA p : Parts(p) = d)
                 \o SortByPartsDescending(SelectSeq(s, LAMBDA p : Parts(p) # d))

SortByParts(s) == SortedFrom(<<>>, s)

\* any(path.is_relative_to(parent) for parent in final_paths)
Covered(path, accepted) ==
    \E parent \in accepted : IsRelativeTo(path, parent)

\* Mutant: every examined path is accepted.
AcceptAlways(accepted, path) == accepted \cup {path}

\* One iteration of "for path in sorted_paths".
Accept(accepted, path) ==
    IF Covered(path, accepted) THEN accepted ELSE accepted \cup {path}

RECURSIVE AcceptAll(_, _)
AcceptAll(accepted, s) ==
    IF s = <<>> THEN accepted
    ELSE AcceptAll(Accept(accepted, Head(s)), Tail(s))

\* The whole of lines 145-150: final_paths for a list of selected paths.
Canonicalize(selected) == AcceptAll({}, SortByParts(selected))

\* ------------------------------------------------------- sorted(list(...))
\* Path.__lt__ compares the parts as a tuple; the names compare as strings.
NameOrder == <<"CODEBASE_EXTRACTS", "a", "b", "c", "node_modules">>

NameRank(n) == CHOOSE i \in 1..Len(NameOrder) : NameOrder[i] = n

RECURSIVE PathLess(_, _)
PathLess(p, q) ==
    IF p = <<>> THEN q # <<>>
    ELSE IF q = <<>> THEN FALSE
    ELSE IF Head(p) = Head(q) THEN PathLess(Tail(p), Tail(q))
    ELSE NameRank(Head(p)) < NameRank(Head(q))

\* Mutant: the folders in descending order.
RECURSIVE SortPathsDescending(_)
SortPathsDescending(S) ==
    IF S = {} THEN <<>>
    ELSE LET last == CHOOSE p \in S : \A q \in S : q = p \/ PathLess(q, p)
         IN  <<last>> \o SortPathsDescending(S \ {last})

\* sorted(list(S)) for a set S of paths.
RECURSIVE SortPaths(_)
SortPaths(S) ==
    IF S = {} THEN <<>>
    ELSE LET first == CHOOSE p \in S : \A q \in S : q = p \/ PathLess(p, q)
         IN  <<first>> \o SortPaths(S \ {first})

\* ------------------------------------------------------------ main(): data
\* Longest list of --select-folders arguments, and of options chosen in the
\* prompt of one run of main().
MaxArgs == 2

\* config.EXCLUDED_DIRS, the names that matter for the modelled tree.
EXCLUDED_DIRS == {"node_modules", ".git"}

\* root_path.iterdir(), the directories among the entries.
RootSubdirs == {<<n>> : n \in Names \cup {"node_modules"}}

\* What --select-folders can name: root_path / p for any relative p, "." (the
\* root itself) and a folder with an excluded name included.
ArgPaths == Dirs \cup {<<>>, <<"node_modules">>}

\* The number of files a unit's extraction can return.
FileCounts == {0, 1, 2}

\* file_handler.py is not among the sources: that its extraction and its
\* write can raise is what the design says of a unit ("I/O error, permission
\* error, decode failure at the walk level") and what the handlers of
\* tui.py, lines 822-826 and 865-867, are written for.
ExtractionMayRaise == TRUE

FolderUnit(p) == [kind |-> "folder", path |-> p]
RootUnit == [kind |-> "root", path |-> <<>>]

SubsetsUpTo(S, n) == {T \in SUBSET S : Cardinality(T) <= n}

RECURSIVE SumCounts(_)
SumCounts(log) ==
    IF log = <<>> THEN 0
    ELSE (IF Head(log).outcome \in {"written", "dry_run"} THEN Head(log).count ELSE 0)
            + SumCounts(Tail(log))

\* ------------------------------------------------- the output directory
\* config.OUTPUT_DIR_NAME as config.py defines it.
OUTPUT_DIR_NAME == "CODEBASE_EXTRACTS"

\* args.output_dir: not given (""), or the name of a folder of the tree.
OutputDirArgs == {"", "a"}

\* root_path.iterdir() in main(), the directories among the entries: the tree
\* of RootSubdirs after a run with the default settings has left its output
\* directory there.
MainSubdirs == RootSubdirs \cup {<<OUTPUT_DIR_NAME>>}

\* Mutant: the names are not compared with the exclusion set.
NotExcludedNone(subdirs, excluded) == subdirs

\* The folders of line 95 for a listing and an exclusion set.
NotExcluded(subdirs, excluded) == {p \in subdirs : p[Len(p)] \notin excluded}

\* ----------------------------------------------------- the run's identity
\* What uuid.uuid4() and datetime.now() can return.
RunRefs == {1, 2}
Times == {1, 2}

\* ------------------------------------------------------------ the documents
\* The extraction of a unit with n files returns (md, n, char_count,
\* word_count); the files of the modelled tree have 10 characters in 2 words.
CharCount(n) == 10 * n
WordCount(n) == 2 * n

\* Mutant: units without files count as extracted too.
HasFilesOrNone(count) == count >= 0

\* "if folder_count > 0" and "if root_count > 0".
HasFiles(count) == count > 0

\* Mutant: the total is replaced by the unit's count.
TotalAfterReplaced(total, count) == count

\* "total_files_extracted += folder_count" and "+= root_count".
TotalAfter(total, count) == total + count

\* Mutant: every document gets a reference of its own.
MainMetadataRestamped(ref, ts, unit, count) ==
    [run_ref |-> ref + count, run_timestamp |-> ts, folder_name |-> unit,
     file_count |-> count]

\* The metadata main() hands to write_to_markdown_file, lines 161 and 174.
MainMetadata(ref, ts, unit, count) ==
    [run_ref |-> ref, run_timestamp |-> ts, folder_name |-> unit,
     file_count |-> count]

\* The metadata _execute_extraction builds, lines 799-806 and 845-852.
TuiMetadata(ref, ts, unit, count) ==
    [run_ref |-> ref, run_timestamp |-> ts, folder_name |-> unit,
     file_count |-> count, char_count |-> CharCount(count),
     word_count |-> WordCount(count)]

\* Mutant: the document is written in a dry run too.
DocumentsAfterAlways(docs, dry, metadata) == Append(docs, metadata)

\* Lines 807-810 and 853-856: "if not self.session.dry_run:
\* write_to_markdown_file(...)".
DocumentsAfter(docs, dry, metadata) ==
    IF dry THEN docs ELSE Append(docs, metadata)

\* ------------------------------------------------------ the size threshold
\* What the user can leave in the max_file_size_input widget.
MaxSizeTexts == {"", "0", "-1", "2", "abc"}

\* float(text) raises ValueError.
NotANumber(text) == text \notin {"0", "-1", "2"}

\* float(text), in megabytes, for a text float() accepts.
FloatOf(text) ==
    CASE text = "0" -> 0
      [] text = "-1" -> -1
      [] text = "2" -> 2

\* Lines 728-731: float(max_size_input) if max_size_input else 1.0, and 1.0
\* on ValueError.
MaxSizeAtRun(text) ==
    IF text = "" \/ NotANumber(text) THEN 1 ELSE FloatOf(text)

\* Lines 612-616: the same conversion, but a ValueError leaves the session's
\* value as it is.
MaxSizeAtInput(text, current) ==
    IF text = "" THEN 1
    ELSE IF NotANumber(text) THEN current
    ELSE FloatOf(text)

\* ------------------------------------------------------------------ state
\* ------------------------------------------------ the selection lists
\* The SelectionLists of the two settings tabs, a few of the eleven, each
\* with a few of its items: two lists of excluded directories, and ".gradle"
\* both as an excluded directory and as an allowed extension.
ListIds == {"pkg_exclusions_list", "flutter_exclusions_list", "lock_files_list",
            "mobile_extensions_list", "allowed_filenames_list"}

\* item_map: the session attribute each list updates.
ListAttr ==
    [id \in ListIds |->
        CASE id = "pkg_exclusions_list" -> "excluded_dirs"
          [] id = "flutter_exclusions_list" -> "excluded_dirs"
          [] id = "lock_files_list" -> "excluded_filenames"
          [] id = "mobile_extensions_list" -> "allowed_extensions"
          [] id = "allowed_filenames_list" -> "allowed_filenames"]

\* item_map: the items each list is expected to hold, which are the values
\* compose() gives the list.
ListItems ==
    [id \in ListIds |->
        CASE id = "pkg_exclusions_list" -> {"node_modules", "vendor"}
          [] id = "flutter_exclusions_list" -> {".gradle"}
          [] id = "lock_files_list" -> {"yarn.lock"}
          [] id = "mobile_extensions_list" -> {".dart", ".gradle"}
          [] id = "allowed_filenames_list" -> {"makefile"}]

\* The default of a session set: the items of the lists that update it.
ItemsOf(attr) == UNION {ListItems[id] : id \in {l \in ListIds : ListAttr[l] = attr}}

\* Mutant: a deselected item is never discarded.
SyncedSetAddOnly(session_set, expected_items, selected_values) ==
    session_set \cup (expected_items \cap selected_values)

\* Lines 670-682: every expected item is added when selected and discarded
\* when not; the rest of the set is not touched.
SyncedSet(session_set, expected_items, selected_values) ==
    (session_set \ expected_items) \cup (expected_items \cap selected_values)

\* The messages a selection list may have pending.
MaxListEvents == 2

VARIABLES
    selected_paths,      \* main: the paths of the selected options
    sorted_paths,        \* main: selected_paths sorted by depth
    final_paths,         \* main: the accumulator of accepted paths
    next_path,           \* main: index of the path the for loop examines next
    canon_pc,            \* main: position in lines 144-151
    folders_to_process,  \* main: the folder units of the batch
    process_root_files,  \* main: whether the root unit is processed
    route,               \* main: how the selection was made
    main_pc,             \* main: position in main()
    unit_order,          \* main: sorted(list(folders_to_process)), line 156
    unit_next,           \* main: index of the next folder of the for loop
    unit_count,          \* main: folder_count / root_count of the unit in hand
    total_files_extracted, \* main: the running total
    unit_log,            \* history: the units attempted, with their outcome
    summary,             \* main: the final message printed
    selected_folders,    \* ExtractionSession.selected_folders
    include_root_files,  \* ExtractionSession.include_root_files
    completed_units,     \* ExtractionSession._completed_units
    dry_run,             \* ExtractionSession.dry_run
    folder_box,          \* tui: the value of each folder checkbox
    select_all_box,      \* tui: the value of select_all_checkbox
    root_files_box,      \* tui: the value of root_files_checkbox
    events,              \* tui: the Checkbox.Changed messages not handled yet
    tui_pc,              \* tui: position in _execute_extraction
    run_disabled,        \* tui: tree_run_button.disabled
    status,              \* tui: what the extraction_status widget shows
    last_op,             \* history: the last operation on the session
    increments,          \* history: the "completed_units += 1" made so far
    only_increments,     \* history: nothing else was done to the session
    output_dir_name,     \* main: config.OUTPUT_DIR_NAME
    excluded_dirs,       \* main: config.EXCLUDED_DIRS
    root_is_dir,         \* main: whether args.root resolves to a directory
    run_ref,             \* the run_ref of the batch in hand
    run_timestamp,       \* the run_timestamp of the batch in hand
    written,             \* the metadata of the documents the batch has written
    max_size_input,      \* tui: the text of the max_file_size_input widget
    max_file_size_mb,    \* ExtractionSession.max_file_size_mb
    prev_run,            \* history: how the run before this one ended
    session_excluded_dirs, \* ExtractionSession.excluded_dirs
    excluded_filenames,  \* ExtractionSession.excluded_filenames
    allowed_extensions,  \* ExtractionSession.allowed_extensions
    allowed_filenames,   \* ExtractionSession.allowed_filenames
    list_selected,       \* tui: the selected values of each SelectionList
    list_events,         \* tui: the SelectedChanged messages not handled yet
    last_list,           \* history: the list whose change was handled last
    confirm_exit,        \* main: confirm_exit of the prompt loop
    selected_options,    \* main: selected_options of the prompt loop
    prompt_pc,           \* main: position in the prompt loop, lines 120-138
    prompt_message,      \* main: what the last pass of the loop printed
    answers,             \* history: how each prompt so far was answered
    before_uncheck       \* history: the folder unchecked under "Select All"

canonVars == <<selected_paths, sorted_paths, final_paths, next_path, canon_pc>>

promptVars == <<process_root_files, route, main_pc, summary>>

batchVars == <<unit_order, unit_next, unit_count, total_files_extracted,
               unit_log>>

mainVars == <<promptVars, batchVars>>

sessionVars == <<selected_folders, include_root_files, completed_units, dry_run>>

widgetVars == <<folder_box, select_all_box, root_files_box, events>>

tuiVars == <<sessionVars, widgetVars, tui_pc, run_disabled, status>>

historyVars == <<last_op, increments, only_increments>>

configVars == <<output_dir_name, excluded_dirs, root_is_dir>>

runVars == <<run_ref, run_timestamp, written>>

settingsVars == <<max_size_input, max_file_size_mb>>

listVars == <<session_excluded_dirs, excluded_filenames, allowed_extensions,
              allowed_filenames, list_selected, list_events, last_list>>

loopVars == <<confirm_exit, selected_options, prompt_pc, prompt_message,
              answers>>

vars == <<canonVars, folders_to_process, mainVars, tuiVars, historyVars,
          configVars, runVars, settingsVars, prev_run, listVars, loopVars,
          before_uncheck>>

\* The folder checkboxes _build_folder_tree mounts: the immediate
\* subdirectories of the root that are not excluded.
TreeFolders == {p \in RootSubdirs : p[Len(p)] \notin EXCLUDED_DIRS}

\* The widgets as compose, on_mount and _build_folder_tree leave them: every
\* checkbox unchecked, nothing running; and no history yet.
WidgetsIdle ==
    /\ folder_box = [f \in TreeFolders |-> FALSE]
    /\ select_all_box = FALSE
    /\ root_files_box = FALSE
    /\ events = <<>>
    /\ tui_pc = "idle"
    /\ run_disabled = FALSE
    /\ status = "none"
    /\ last_op = "init"
    /\ increments = 0
    /\ only_increments = TRUE

\* The app with the session of its defaults.
TuiIdle ==
    /\ selected_folders = {}
    /\ include_root_files = FALSE
    /\ completed_units = 0
    /\ dry_run = FALSE
    /\ WidgetsIdle

\* No run has ended yet.
NoRun ==
    [ended |-> "none", dry_run |-> FALSE, log |-> <<>>, total |-> 0,
     completed |-> 0, written |-> 0]

\* The selection lists as compose() makes them (every item selected) and the
\* session's four sets with their defaults, which hold the same items.
ListsIdle ==
    /\ session_excluded_dirs = ItemsOf("excluded_dirs")
    /\ excluded_filenames = ItemsOf("excluded_filenames")
    /\ allowed_extensions = ItemsOf("allowed_extensions")
    /\ allowed_filenames = ItemsOf("allowed_filenames")
    /\ list_selected = [id \in ListIds |-> ListItems[id]]
    /\ list_events = <<>>
    /\ last_list = ""

\* The prompt loop has not been entered.
LoopIdle ==
    /\ confirm_exit = FALSE
    /\ selected_options = {}
    /\ prompt_pc = "idle"
    /\ prompt_message = "none"
    /\ answers = <<>>

\* No folder has been unchecked under a checked "Select All".
NoUncheck == [path |-> <<>>, selected |-> {}]

\* The configuration as config.py and the session's defaults give it (the
\* input widgets are composed empty), no run identity, nothing written.
EnvIdle ==
    /\ output_dir_name = OUTPUT_DIR_NAME
    /\ excluded_dirs = EXCLUDED_DIRS
    /\ run_ref = 0
    /\ run_timestamp = 0
    /\ written = <<>>
    /\ max_size_input = ""
    /\ max_file_size_mb = 1
    /\ prev_run = NoRun
    /\ ListsIdle
    /\ before_uncheck = NoUncheck

\* main() as it is entered (nothing selected, lines 88-89), and no batch yet.
MainIdle ==
    /\ process_root_files = FALSE
    /\ route = "none"
    /\ main_pc = "start"
    /\ unit_order = <<>>
    /\ unit_next = 1
    /\ unit_count = -1
    /\ total_files_extracted = 0
    /\ unit_log = <<>>
    /\ summary = "none"

\* ------------------------------------------- canonicalisation, step by step
\* Any list of offered folders, in any order, repeats included.
CanonInit ==
    /\ selected_paths \in SeqsUpTo(Dirs, MaxSel)
    /\ sorted_paths = <<>>
    /\ final_paths = {}
    /\ next_path = 1
    /\ canon_pc = "sort"
    /\ folders_to_process = {}
    /\ MainIdle
    /\ TuiIdle
    /\ EnvIdle
    /\ root_is_dir = TRUE
    /\ LoopIdle

\* Lines 145 and 147.
CanonSort ==
    /\ canon_pc = "sort"
    /\ sorted_paths' = SortByParts(selected_paths)
    /\ final_paths' = {}
    /\ next_path' = 1
    /\ canon_pc' = "loop"
    /\ UNCHANGED <<selected_paths, folders_to_process, mainVars, tuiVars,
                   historyVars>>
    /\ UNCHANGED <<configVars, runVars, settingsVars, prev_run>>
    /\ UNCHANGED <<listVars, loopVars, before_uncheck>>

\* Lines 148-150, one iteration.
CanonExamine ==
    /\ canon_pc = "loop"
    /\ next_path <= Len(sorted_paths)
    /\ final_paths' = Accept(final_paths, sorted_paths[next_path])
    /\ next_path' = next_path + 1
    /\ UNCHANGED <<selected_paths, sorted_paths, canon_pc, folders_to_process,
                   mainVars, tuiVars, historyVars>>
    /\ UNCHANGED <<configVars, runVars, settingsVars, prev_run>>
    /\ UNCHANGED <<listVars, loopVars, before_uncheck>>

\* Line 151, after the loop.
CanonUpdate ==
    /\ canon_pc = "loop"
    /\ next_path > Len(sorted_paths)
    /\ folders_to_process' = folders_to_process \cup final_paths
    /\ canon_pc' = "done"
    /\ UNCHANGED <<selected_paths, sorted_paths, final_paths, next_path, mainVars,
                   tuiVars, historyVars>>
    /\ UNCHANGED <<configVars, runVars, settingsVars, prev_run>>
    /\ UNCHANGED <<listVars, loopVars, before_uncheck>>

CanonNext == CanonSort \/ CanonExamine \/ CanonUpdate

SpecCanon == CanonInit /\ [][CanonNext]_vars

\* ------------------------------------------------------------------ main()
\* main() is entered; args.root is a directory or it is not.
MainInit ==
    /\ selected_paths = <<>>
    /\ sorted_paths = <<>>
    /\ final_paths = {}
    /\ next_path = 1
    /\ canon_pc = "idle"
    /\ folders_to_process = {}
    /\ MainIdle
    /\ TuiIdle
    /\ EnvIdle
    /\ root_is_dir \in BOOLEAN
    /\ LoopIdle

\* Lines 41-47: --output-dir replaces config.OUTPUT_DIR_NAME and is added to
\* config.EXCLUDED_DIRS; without it the configuration stays as config.py
\* made it.
MainParseArgs ==
    /\ main_pc = "start"
    /\ \E output_dir \in OutputDirArgs :
            IF output_dir # ""
            THEN /\ output_dir_name' = output_dir
                 /\ excluded_dirs' = excluded_dirs \cup {output_dir}
            ELSE UNCHANGED <<output_dir_name, excluded_dirs>>
    /\ main_pc' = "root"
    /\ UNCHANGED <<canonVars, folders_to_process, process_root_files, route,
                   summary, batchVars>>
    /\ UNCHANGED <<tuiVars, historyVars>>
    /\ UNCHANGED <<root_is_dir, runVars, settingsVars, prev_run>>
    /\ UNCHANGED <<listVars, loopVars, before_uncheck>>

\* Mutant: the root path is not looked at.
AfterRootCheckSkipped(is_dir) == "select"

\* Lines 59-62: where main() goes on after "if not root_path.is_dir()".
AfterRootCheck(is_dir) == IF is_dir THEN "select" ELSE "bad_root"

\* Lines 49-62: the banner, then the root path is resolved and checked; the
\* error is printed and main() returns if it is not a directory.
MainCheckRoot ==
    /\ main_pc = "root"
    /\ main_pc' = AfterRootCheck(root_is_dir)
    /\ summary' = IF main_pc' = "bad_root" THEN "root_error" ELSE summary
    /\ UNCHANGED <<canonVars, folders_to_process, process_root_files, route,
                   batchVars>>
    /\ UNCHANGED <<tuiVars, historyVars>>
    /\ UNCHANGED <<configVars, runVars, settingsVars, prev_run>>
    /\ UNCHANGED <<listVars, loopVars, before_uncheck>>

\* Lines 91-92: run_ref and run_timestamp are made, before the selection.
NewRun ==
    /\ \E ref \in RunRefs : run_ref' = ref
    /\ \E now \in Times : run_timestamp' = now

\* Lines 91-96: the run identity, then 'everything' mode.
SelectEverything ==
    /\ main_pc = "select"
    /\ route' = "everything"
    /\ folders_to_process' =
            folders_to_process
                \cup NotExcluded(MainSubdirs, excluded_dirs)
    /\ process_root_files' = TRUE
    /\ main_pc' = "selected"
    /\ UNCHANGED <<canonVars, unit_order, unit_next, unit_count,
                   total_files_extracted, unit_log, summary>>
    /\ UNCHANGED <<tuiVars, historyVars>>
    /\ NewRun
    /\ UNCHANGED <<configVars, written, settingsVars, prev_run>>
    /\ UNCHANGED <<listVars, loopVars, before_uncheck>>

\* Lines 91-92 and 110-114: the run identity, then 'specific' mode with
\* --select-folders and/or --select-root.
SelectFromArgs ==
    /\ main_pc = "select"
    /\ \E select_root \in BOOLEAN, select_folders \in SubsetsUpTo(ArgPaths, MaxArgs) :
            /\ select_folders # {} \/ select_root
            /\ process_root_files' = select_root
            /\ folders_to_process' = folders_to_process \cup select_folders
    /\ route' = "args"
    /\ main_pc' = "selected"
    /\ UNCHANGED <<canonVars, unit_order, unit_next, unit_count,
                   total_files_extracted, unit_log, summary>>
    /\ UNCHANGED <<tuiVars, historyVars>>
    /\ NewRun
    /\ UNCHANGED <<configVars, written, settingsVars, prev_run>>
    /\ UNCHANGED <<listVars, loopVars, before_uncheck>>

\* Lines 91-92 and 116-151: the run identity, then 'specific' mode with the
\* checkbox prompt, answered with a
\* non-empty selection (the options in the order of the choices), the
\* root sentinel among them or not.
SelectFromPrompt ==
    /\ main_pc = "select"
    /\ \E sentinel \in BOOLEAN, chosen \in SubsetsUpTo(Dirs, MaxArgs) :
            /\ chosen # {} \/ sentinel
            /\ process_root_files' = sentinel
            /\ selected_paths' = SortPaths(chosen)
    /\ sorted_paths' = SortByParts(selected_paths')
    /\ final_paths' = Canonicalize(selected_paths')
    /\ next_path' = Len(sorted_paths') + 1
    /\ canon_pc' = "done"
    /\ folders_to_process' = folders_to_process \cup final_paths'
    /\ route' = "prompt"
    /\ main_pc' = "selected"
    /\ UNCHANGED <<unit_order, unit_next, unit_count, total_files_extracted,
                   unit_log, summary>>
    /\ UNCHANGED <<tuiVars, historyVars>>
    /\ NewRun
    /\ UNCHANGED <<configVars, written, settingsVars, prev_run>>
    /\ UNCHANGED <<listVars, loopVars, before_uncheck>>

\* Lines 153-156: the batch loop is entered with the folders sorted.
MainStartBatch ==
    /\ main_pc = "selected"
    /\ total_files_extracted' = 0
    /\ unit_order' = SortPaths(folders_to_process)
    /\ unit_next' = 1
    /\ main_pc' = "units"
    /\ UNCHANGED <<canonVars, folders_to_process, process_root_files, route,
                   unit_count, unit_log, summary>>
    /\ UNCHANGED <<tuiVars, historyVars>>
    /\ UNCHANGED <<configVars, runVars, settingsVars, prev_run>>
    /\ UNCHANGED <<listVars, loopVars, before_uncheck>>

\* The unit the batch is at: the next folder of line 156, then the root unit
\* of line 168.
HasUnit ==
    \/ unit_next <= Len(unit_order)
    \/ unit_next = Len(unit_order) + 1 /\ process_root_files

CurrentUnit ==
    IF unit_next <= Len(unit_order) THEN FolderUnit(unit_order[unit_next])
    ELSE RootUnit

Logged(outcome) ==
    Append(unit_log,
           [unit |-> CurrentUnit,
            count |-> IF unit_count < 0 THEN 0 ELSE unit_count,
            outcome |-> outcome])

\* Lines 159 and 172: extract_code_from_folder / extract_code_from_root return.
MainExtract ==
    /\ main_pc = "units"
    /\ HasUnit
    /\ unit_count = -1
    /\ \E n \in FileCounts : unit_count' = n
    /\ UNCHANGED <<canonVars, folders_to_process, process_root_files, route,
                   main_pc, unit_order, unit_next, total_files_extracted,
                   unit_log, summary>>
    /\ UNCHANGED <<tuiVars, historyVars>>
    /\ UNCHANGED <<configVars, runVars, settingsVars, prev_run>>
    /\ UNCHANGED <<listVars, loopVars, before_uncheck>>

\* Lines 160-164 and 173-177: the unit has files; its document is written.
MainWrite ==
    /\ main_pc = "units"
    /\ HasFiles(unit_count)
    /\ total_files_extracted' = TotalAfter(total_files_extracted, unit_count)
    /\ unit_log' = Logged("written")
    /\ unit_next' = unit_next + 1
    /\ unit_count' = -1
    /\ UNCHANGED <<canonVars, folders_to_process, process_root_files, route,
                   main_pc, unit_order, summary>>
    /\ UNCHANGED <<tuiVars, historyVars>>
    /\ written' = Append(written, MainMetadata(run_ref, run_timestamp,
                                                CurrentUnit, unit_count))
    /\ UNCHANGED <<configVars, run_ref, run_timestamp, settingsVars, prev_run>>
    /\ UNCHANGED <<listVars, loopVars, before_uncheck>>

\* Lines 165-166 and 178-179: the unit has no extractable file.
MainNoFiles ==
    /\ main_pc = "units"
    /\ unit_count >= 0 /\ ~HasFiles(unit_count)
    /\ unit_log' = Logged("empty")
    /\ unit_next' = unit_next + 1
    /\ unit_count' = -1
    /\ UNCHANGED <<canonVars, folders_to_process, process_root_files, route,
                   main_pc, unit_order, total_files_extracted, summary>>
    /\ UNCHANGED <<tuiVars, historyVars>>
    /\ UNCHANGED <<configVars, runVars, settingsVars, prev_run>>
    /\ UNCHANGED <<listVars, loopVars, before_uncheck>>

\* An OSError (permission, I/O) or a decode error leaves the extraction or
\* the write of the unit in hand. main() wraps lines 39-193 in
\* "except KeyboardInterrupt" only: the exception ends main().
MainUnitError ==
    /\ ExtractionMayRaise
    /\ main_pc = "units"
    /\ HasUnit
    /\ unit_count # 0
    /\ unit_log' = Logged("error")
    /\ unit_count' = -1
    /\ main_pc' = "crashed"
    /\ UNCHANGED <<canonVars, folders_to_process, process_root_files, route,
                   unit_order, unit_next, total_files_extracted, summary>>
    /\ UNCHANGED <<tuiVars, historyVars>>
    /\ UNCHANGED <<configVars, runVars, settingsVars, prev_run>>
    /\ UNCHANGED <<listVars, loopVars, before_uncheck>>

\* Lines 195-197: Ctrl+C anywhere inside the try block.
MainInterrupt ==
    /\ main_pc \in {"start", "root", "select", "selected", "units"}
    /\ unit_log' = IF unit_count >= 0 THEN Logged("interrupted") ELSE unit_log
    /\ unit_count' = -1
    /\ main_pc' = "aborted"
    /\ UNCHANGED <<canonVars, folders_to_process, process_root_files, route,
                   unit_order, unit_next, total_files_extracted, summary>>
    /\ UNCHANGED <<tuiVars, historyVars>>
    /\ UNCHANGED <<configVars, runVars, settingsVars, prev_run>>
    /\ UNCHANGED <<listVars, loopVars, before_uncheck>>

\* Lines 186-191: the final message.
MainSummary ==
    /\ main_pc = "units"
    /\ ~HasUnit
    /\ unit_count = -1
    /\ summary' = IF total_files_extracted > 0 THEN "success" ELSE "no_match"
    /\ main_pc' = "done"
    /\ UNCHANGED <<canonVars, folders_to_process, process_root_files, route,
                   unit_order, unit_next, unit_count, total_files_extracted,
                   unit_log>>
    /\ UNCHANGED <<tuiVars, historyVars>>
    /\ UNCHANGED <<configVars, runVars, settingsVars, prev_run>>
    /\ UNCHANGED <<listVars, loopVars, before_uncheck>>

Next ==
    \/ MainParseArgs
    \/ MainCheckRoot
    \/ SelectEverything
    \/ SelectFromArgs
    \/ SelectFromPrompt
    \/ MainStartBatch
    \/ MainExtract
    \/ MainWrite
    \/ MainNoFiles
    \/ MainUnitError
    \/ MainInterrupt
    \/ MainSummary

Spec == MainInit /\ [][Next]_vars

\* ------------------------------------------------------- ExtractionSession
\* Checkbox changes the user may make while earlier ones are not handled yet.
MaxPending == 2

Min(x, y) == IF x <= y THEN x ELSE y

\* ExtractionSession.total_units
TotalUnits(folders, root_files) ==
    Cardinality(folders) + (IF root_files THEN 1 ELSE 0)

total_units == TotalUnits(selected_folders, include_root_files)

\* Mutant: the setter stores the value as given.
ClampedUnclamped(value, total) == value

\* The completed_units setter: what _completed_units becomes.
Clamped(value, total) == Min(value, total)

\* Largest value assigned to completed_units from outside.
MaxAssign == 5

\* Most "completed_units += 1" in a row.
MaxIncrements == 5

\* A session as its dataclass constructor can make it: any folders, the root
\* files or not, and _completed_units 0 (a field with init=False).
SessionInit ==
    /\ selected_folders \in SUBSET TreeFolders
    /\ include_root_files \in BOOLEAN
    /\ completed_units = 0
    /\ dry_run = FALSE
    /\ WidgetsIdle
    /\ selected_paths = <<>>
    /\ sorted_paths = <<>>
    /\ final_paths = {}
    /\ next_path = 1
    /\ canon_pc = "idle"
    /\ folders_to_process = {}
    /\ MainIdle
    /\ EnvIdle
    /\ root_is_dir = TRUE
    /\ LoopIdle

\* session.completed_units = value, lines 79-82.
SessionAssign ==
    /\ \E value \in -1..MaxAssign :
            completed_units' = Clamped(value, total_units)
    /\ last_op' = "assign"
    /\ only_increments' = FALSE
    /\ UNCHANGED <<selected_folders, include_root_files, dry_run, widgetVars,
                   tui_pc, run_disabled, status, increments>>
    /\ UNCHANGED <<canonVars, folders_to_process, mainVars>>
    /\ UNCHANGED <<configVars, runVars, settingsVars, prev_run>>
    /\ UNCHANGED <<listVars, loopVars, before_uncheck>>

\* session.completed_units += 1: the getter, lines 74-77, then the setter.
SessionIncrement ==
    /\ increments < MaxIncrements
    /\ completed_units' = Clamped(completed_units + 1, total_units)
    /\ last_op' = "increment"
    /\ increments' = increments + 1
    /\ UNCHANGED <<selected_folders, include_root_files, dry_run, widgetVars,
                   tui_pc, run_disabled, status, only_increments>>
    /\ UNCHANGED <<canonVars, folders_to_process, mainVars>>
    /\ UNCHANGED <<configVars, runVars, settingsVars, prev_run>>
    /\ UNCHANGED <<listVars, loopVars, before_uncheck>>

\* session.selected_folders.add / discard, lines 578-593.
SessionSelectFolder ==
    /\ \E f \in TreeFolders :
            selected_folders' =
                IF f \in selected_folders THEN selected_folders \ {f}
                ELSE selected_folders \cup {f}
    /\ last_op' = "select"
    /\ only_increments' = FALSE
    /\ UNCHANGED <<include_root_files, completed_units, dry_run, widgetVars,
                   tui_pc, run_disabled, status, increments>>
    /\ UNCHANGED <<canonVars, folders_to_process, mainVars>>
    /\ UNCHANGED <<configVars, runVars, settingsVars, prev_run>>
    /\ UNCHANGED <<listVars, loopVars, before_uncheck>>

\* session.include_root_files = value, line 562.
SessionSetRootFiles ==
    /\ include_root_files' = ~include_root_files
    /\ last_op' = "select"
    /\ only_increments' = FALSE
    /\ UNCHANGED <<selected_folders, completed_units, dry_run, widgetVars,
                   tui_pc, run_disabled, status, increments>>
    /\ UNCHANGED <<canonVars, folders_to_process, mainVars>>
    /\ UNCHANGED <<configVars, runVars, settingsVars, prev_run>>
    /\ UNCHANGED <<listVars, loopVars, before_uncheck>>

SessionNext ==
    \/ SessionAssign
    \/ SessionIncrement
    \/ SessionSelectFolder
    \/ SessionSetRootFiles

SpecSession == SessionInit /\ [][SessionNext]_vars

\* --------------------------------------------------------- the checkboxes
ChangedEvent(box, path, value) == [box |-> box, path |-> path, value |-> value]

\* The user clicks a folder checkbox: its value flips and Changed is posted.
UserToggleFolderStep ==
    /\ tui_pc = "idle"
    /\ Len(events) < MaxPending
    /\ \E f \in TreeFolders :
            /\ folder_box' = [folder_box EXCEPT ![f] = ~folder_box[f]]
            /\ events' = Append(events, ChangedEvent("folder", f, ~folder_box[f]))
    /\ UNCHANGED <<sessionVars, select_all_box, root_files_box, tui_pc,
                   run_disabled, status>>
    /\ UNCHANGED <<canonVars, folders_to_process, mainVars, historyVars>>
    /\ UNCHANGED <<configVars, runVars, settingsVars, prev_run>>
    /\ UNCHANGED <<listVars, loopVars>>

UserToggleFolder == UserToggleFolderStep /\ UNCHANGED before_uncheck

\* The user clicks "Select All Folders".
UserToggleSelectAll ==
    /\ tui_pc = "idle"
    /\ Len(events) < MaxPending
    /\ select_all_box' = ~select_all_box
    /\ events' = Append(events, ChangedEvent("select_all", <<>>, ~select_all_box))
    /\ UNCHANGED <<sessionVars, folder_box, root_files_box, tui_pc,
                   run_disabled, status>>
    /\ UNCHANGED <<canonVars, folders_to_process, mainVars, historyVars>>
    /\ UNCHANGED <<configVars, runVars, settingsVars, prev_run>>
    /\ UNCHANGED <<listVars, loopVars, before_uncheck>>

\* The user clicks "Include root files".
UserToggleRootFiles ==
    /\ tui_pc = "idle"
    /\ Len(events) < MaxPending
    /\ root_files_box' = ~root_files_box
    /\ events' = Append(events, ChangedEvent("root_files", <<>>, ~root_files_box))
    /\ UNCHANGED <<sessionVars, folder_box, select_all_box, tui_pc,
                   run_disabled, status>>
    /\ UNCHANGED <<canonVars, folders_to_process, mainVars, historyVars>>
    /\ UNCHANGED <<configVars, runVars, settingsVars, prev_run>>
    /\ UNCHANGED <<listVars, loopVars, before_uncheck>>

\* on_checkbox_changed, lines 561-563.
HandleRootFilesChanged ==
    /\ tui_pc = "idle"
    /\ events # <<>>
    /\ Head(events).box = "root_files"
    /\ include_root_files' = Head(events).value
    /\ events' = Tail(events)
    /\ UNCHANGED <<selected_folders, completed_units, dry_run, folder_box,
                   select_all_box, root_files_box, tui_pc, run_disabled, status>>
    /\ UNCHANGED <<canonVars, folders_to_process, mainVars, historyVars>>
    /\ UNCHANGED <<configVars, runVars, settingsVars, prev_run>>
    /\ UNCHANGED <<listVars, loopVars, before_uncheck>>

\* The Changed messages that "child.value = select_all" posts: one for every
\* folder checkbox whose value changes, in the order of the children.
RECURSIVE ChildEvents(_, _, _)
ChildEvents(children, boxes, value) ==
    IF children = <<>> THEN <<>>
    ELSE (IF boxes[Head(children)] # value
              THEN <<ChangedEvent("folder", Head(children), value)>>
              ELSE <<>>)
            \o ChildEvents(Tail(children), boxes, value)

\* Mutant: unchecking "Select All" discards no folder.
SelectedAfterAllAddOnly(selected, folders, select_all) ==
    IF select_all THEN selected \cup folders ELSE selected

\* Lines 577-580: every folder of the tree is added to the session when
\* "Select All" was checked and discarded when it was unchecked.
SelectedAfterAll(selected, folders, select_all) ==
    IF select_all THEN selected \cup folders ELSE selected \ folders

\* on_checkbox_changed, lines 566-580.
HandleSelectAllChanged ==
    /\ tui_pc = "idle"
    /\ events # <<>>
    /\ Head(events).box = "select_all"
    /\ LET select_all == Head(events).value
       IN  /\ folder_box' = [f \in TreeFolders |-> select_all]
           /\ selected_folders' =
                   SelectedAfterAll(selected_folders, TreeFolders, select_all)
           /\ events' = Tail(events)
                   \o ChildEvents(SortPaths(TreeFolders), folder_box, select_all)
    /\ UNCHANGED <<include_root_files, completed_units, dry_run, select_all_box,
                   root_files_box, tui_pc, run_disabled, status>>
    /\ UNCHANGED <<canonVars, folders_to_process, mainVars, historyVars>>
    /\ UNCHANGED <<configVars, runVars, settingsVars, prev_run>>
    /\ UNCHANGED <<listVars, loopVars, before_uncheck>>

\* on_checkbox_changed, lines 583-597.
HandleFolderChanged ==
    /\ tui_pc = "idle"
    /\ events # <<>>
    /\ Head(events).box = "folder"
    /\ LET folder_path == Head(events).path
           value == Head(events).value
       IN  IF value
           THEN /\ selected_folders' = selected_folders \cup {folder_path}
                /\ events' = Tail(events)
                /\ UNCHANGED select_all_box
           ELSE /\ selected_folders' = selected_folders \ {folder_path}
                /\ select_all_box' = FALSE
                /\ events' =
                        IF select_all_box
                        THEN Append(Tail(events), ChangedEvent("select_all", <<>>, FALSE))
                        ELSE Tail(events)
    /\ UNCHANGED <<include_root_files, completed_units, dry_run, folder_box,
                   root_files_box, tui_pc, run_disabled, status>>
    /\ UNCHANGED <<canonVars, folders_to_process, mainVars, historyVars>>
    /\ UNCHANGED <<configVars, runVars, settingsVars, prev_run>>
    /\ UNCHANGED <<listVars, loopVars, before_uncheck>>

\* ------------------------------------------------- the batch of the app
\* Lines 768-769: run_ref and run_timestamp of the run that starts. No step
\* of the app looks at their values and its runs follow one another, so the
\* run in hand is given one arbitrary reference and one arbitrary time.
TuiNewRun ==
    /\ run_ref' = CHOOSE ref \in RunRefs : TRUE
    /\ run_timestamp' = CHOOSE now \in Times : TRUE

\* Mutant: the root unit of line 832 is left out.
TuiHasUnitFoldersOnly == unit_next <= Len(unit_order)

\* The unit _execute_extraction is at: the next folder of line 786, then the
\* root unit of line 832.
TuiHasUnit ==
    \/ unit_next <= Len(unit_order)
    \/ unit_next = Len(unit_order) + 1 /\ include_root_files

\* Mutant: the selection is not looked at.
NothingSelectedNever == FALSE

\* Line 712: "not self.session.selected_folders and not
\* self.session.include_root_files".
NothingSelected == selected_folders = {} /\ ~include_root_files

\* _run_extraction_from_tree, lines 712-716: nothing is selected.
TuiRunBlocked ==
    /\ tui_pc = "idle"
    /\ ~run_disabled
    /\ NothingSelected
    /\ status' = "please_select"
    /\ UNCHANGED <<sessionVars, widgetVars, tui_pc, run_disabled>>
    /\ UNCHANGED <<canonVars, folders_to_process, mainVars, historyVars>>
    /\ UNCHANGED <<configVars, runVars, settingsVars, prev_run>>
    /\ UNCHANGED <<listVars, loopVars, before_uncheck>>

\* Mutant: the counter of the run before is kept.
CompletedAtStartKept(completed) == completed

\* Line 767: "self.session._completed_units = 0".
CompletedAtStart(completed) == 0

\* _run_extraction_from_tree, lines 718-750, and _execute_extraction down to
\* the head of the loop, lines 766-786. The dry-run radio button is read.
TuiRunStart ==
    /\ tui_pc = "idle"
    /\ ~run_disabled
    /\ ~NothingSelected
    /\ \E dry_run_enabled \in BOOLEAN : dry_run' = dry_run_enabled
    /\ status' = "starting"
    /\ completed_units' = CompletedAtStart(completed_units)
    /\ total_files_extracted' = 0
    /\ run_disabled' = TRUE
    /\ unit_order' = SortPaths(selected_folders)
    /\ unit_next' = 1
    /\ unit_count' = -1
    /\ unit_log' = <<>>
    /\ tui_pc' = "running"
    /\ UNCHANGED <<selected_folders, include_root_files, widgetVars>>
    /\ UNCHANGED <<canonVars, folders_to_process, promptVars, historyVars>>
    /\ max_file_size_mb' = MaxSizeAtRun(max_size_input)
    /\ TuiNewRun
    /\ written' = <<>>
    /\ UNCHANGED <<configVars, max_size_input, prev_run>>
    /\ UNCHANGED <<listVars, loopVars, before_uncheck>>

\* Mutant: the counter is advanced in the success branch only, not in finally.
AdvancedOnSuccess(outcome) ==
    IF outcome \in {"written", "dry_run"}
    THEN Clamped(completed_units + 1, total_units)
    ELSE completed_units

\* "finally: self.session.completed_units += 1" for a unit that ended with
\* outcome: the getter, the sum and the setter.
Advanced(outcome) == Clamped(completed_units + 1, total_units)

\* The end of one unit: its entry in the history, the finally clause, and on
\* to the next unit.
UnitEnds(outcome) ==
    /\ unit_log' = Logged(outcome)
    /\ completed_units' = Advanced(outcome)
    /\ unit_count' = -1

\* Lines 788-796 and 835-842: the extraction returns.
TuiExtract ==
    /\ tui_pc = "running"
    /\ TuiHasUnit
    /\ unit_count = -1
    /\ \E n \in FileCounts : unit_count' = n
    /\ UNCHANGED <<unit_order, unit_next, total_files_extracted, unit_log>>
    /\ UNCHANGED tuiVars
    /\ UNCHANGED <<canonVars, folders_to_process, promptVars, historyVars>>
    /\ UNCHANGED <<configVars, runVars, settingsVars, prev_run>>
    /\ UNCHANGED <<listVars, loopVars, before_uncheck>>

\* Lines 798-816 and 844-861, then finally: the unit has files; its document
\* is written unless this is a dry run.
TuiWrite ==
    /\ tui_pc = "running"
    /\ HasFiles(unit_count)
    /\ UnitEnds(IF dry_run THEN "dry_run" ELSE "written")
    /\ total_files_extracted' = TotalAfter(total_files_extracted, unit_count)
    /\ status' = "extracted"
    /\ unit_next' = unit_next + 1
    /\ UNCHANGED <<unit_order, selected_folders, include_root_files, dry_run,
                   widgetVars, tui_pc, run_disabled>>
    /\ UNCHANGED <<canonVars, folders_to_process, promptVars, historyVars>>
    /\ written' = DocumentsAfter(written, dry_run,
                                 TuiMetadata(run_ref, run_timestamp,
                                             CurrentUnit, unit_count))
    /\ UNCHANGED <<configVars, run_ref, run_timestamp, settingsVars, prev_run>>
    /\ UNCHANGED <<listVars, loopVars, before_uncheck>>

\* Lines 817-820 and 862-863, then finally: no extractable file.
TuiNoFiles ==
    /\ tui_pc = "running"
    /\ unit_count >= 0 /\ ~HasFiles(unit_count)
    /\ UnitEnds("empty")
    /\ status' = "no_files"
    /\ unit_next' = unit_next + 1
    /\ UNCHANGED <<unit_order, total_files_extracted, selected_folders,
                   include_root_files, dry_run, widgetVars, tui_pc, run_disabled>>
    /\ UNCHANGED <<canonVars, folders_to_process, promptVars, historyVars>>
    /\ UNCHANGED <<configVars, runVars, settingsVars, prev_run>>
    /\ UNCHANGED <<listVars, loopVars, before_uncheck>>

\* Lines 822-829 and 865-870: the extraction, or the write of a unit with
\* files, raises an Exception; it is reported and the loop goes on.
TuiUnitError ==
    /\ ExtractionMayRaise
    /\ tui_pc = "running"
    /\ TuiHasUnit
    /\ unit_count = -1 \/ (unit_count > 0 /\ ~dry_run)
    /\ UnitEnds("error")
    /\ status' = "unit_error"
    /\ unit_next' = unit_next + 1
    /\ UNCHANGED <<unit_order, total_files_extracted, selected_folders,
                   include_root_files, dry_run, widgetVars, tui_pc, run_disabled>>
    /\ UNCHANGED <<canonVars, folders_to_process, promptVars, historyVars>>
    /\ UNCHANGED <<configVars, runVars, settingsVars, prev_run>>
    /\ UNCHANGED <<listVars, loopVars, before_uncheck>>

\* Lines 887-889: KeyboardInterrupt inside the try block. Inside a unit the
\* unit's finally clause runs first.
TuiInterrupt ==
    /\ tui_pc = "running"
    /\ IF TuiHasUnit
       THEN UnitEnds("interrupted")
       ELSE UNCHANGED <<unit_log, completed_units, unit_count>>
    /\ status' = "cancelled"
    /\ tui_pc' = "cancelled"
    /\ UNCHANGED <<unit_order, unit_next, total_files_extracted,
                   selected_folders, include_root_files, dry_run, widgetVars,
                   run_disabled>>
    /\ UNCHANGED <<canonVars, folders_to_process, promptVars, historyVars>>
    /\ UNCHANGED <<configVars, runVars, settingsVars, prev_run>>
    /\ UNCHANGED <<listVars, loopVars, before_uncheck>>

\* Lines 872-885: every unit is behind; the final summary.
TuiSummary ==
    /\ tui_pc = "running"
    /\ ~TuiHasUnit
    /\ unit_count = -1
    /\ status' = IF total_files_extracted > 0 THEN "complete" ELSE "no_match"
    /\ tui_pc' = "finished"
    /\ UNCHANGED <<batchVars, sessionVars, widgetVars, run_disabled>>
    /\ UNCHANGED <<canonVars, folders_to_process, promptVars, historyVars>>
    /\ UNCHANGED <<configVars, runVars, settingsVars, prev_run>>
    /\ UNCHANGED <<listVars, loopVars, before_uncheck>>

\* Lines 822-829, 865-870 and 890-892: the extraction, or the write, of a
\* unit raises and the handler of that exception (logging, status.update)
\* raises itself. The unit's finally clause runs, nothing catches the second
\* exception, and it leaves _execute_extraction through the outer finally.
TuiEscape ==
    /\ ExtractionMayRaise
    /\ tui_pc = "running"
    /\ TuiHasUnit
    /\ unit_count = -1 \/ (unit_count > 0 /\ ~dry_run)
    /\ UnitEnds("error")
    /\ tui_pc' = "escaped"
    /\ UNCHANGED <<unit_order, unit_next, total_files_extracted,
                   selected_folders, include_root_files, dry_run, widgetVars,
                   run_disabled, status>>
    /\ UNCHANGED <<canonVars, folders_to_process, promptVars, historyVars>>
    /\ UNCHANGED <<configVars, runVars, settingsVars, prev_run>>
    /\ UNCHANGED <<listVars, loopVars, before_uncheck>>

\* Mutant: the button is enabled again at the end of the try block, not in
\* the finally clause.
DisabledAfterUnlessFinished(ended) == ended # "finished"

\* Lines 890-892: run_button.disabled after the batch ended as given.
DisabledAfter(ended) == FALSE

\* Lines 890-892: the Run button is enabled again and the handler returns;
\* its local variables are gone.
TuiReturnStep ==
    /\ tui_pc \in {"finished", "cancelled", "escaped"}
    /\ run_disabled' = DisabledAfter(tui_pc)
    /\ tui_pc' = "idle"
    /\ unit_order' = <<>>
    /\ unit_next' = 1
    /\ unit_count' = -1
    /\ total_files_extracted' = 0
    /\ unit_log' = <<>>
    /\ UNCHANGED <<sessionVars, widgetVars, status>>
    /\ UNCHANGED <<canonVars, folders_to_process, promptVars, historyVars>>
    /\ run_ref' = 0
    /\ run_timestamp' = 0
    /\ written' = <<>>
    /\ UNCHANGED <<configVars, settingsVars>>
    /\ UNCHANGED <<listVars, loopVars, before_uncheck>>

\* The return of the handler in the app.
TuiReturn == TuiReturnStep /\ UNCHANGED prev_run

\* The same return, with how the run ended kept for the run after it.
TuiReturnRecorded ==
    /\ TuiReturnStep
    /\ prev_run' =
            [ended |-> tui_pc, dry_run |-> dry_run, log |-> unit_log,
             total |-> total_files_extracted, completed |-> completed_units,
             written |-> Len(written)]

\* The app as on_mount leaves it; its root is Path.cwd(), a directory.
TuiInit ==
    /\ selected_paths = <<>>
    /\ sorted_paths = <<>>
    /\ final_paths = {}
    /\ next_path = 1
    /\ canon_pc = "idle"
    /\ folders_to_process = {}
    /\ MainIdle
    /\ TuiIdle
    /\ EnvIdle
    /\ root_is_dir = TRUE
    /\ LoopIdle

TuiNext ==
    \/ UserToggleFolder
    \/ UserToggleSelectAll
    \/ UserToggleRootFiles
    \/ HandleRootFilesChanged
    \/ HandleSelectAllChanged
    \/ HandleFolderChanged
    \/ TuiRunBlocked
    \/ TuiRunStart
    \/ TuiExtract
    \/ TuiWrite
    \/ TuiNoFiles
    \/ TuiUnitError
    \/ TuiInterrupt
    \/ TuiSummary
    \/ TuiReturn

SpecTui == TuiInit /\ [][TuiNext]_vars

\* ------------------------------------- a run and a dry run, one after the other
\* Most units of the selection that is run twice.
MaxPairUnits == 2

\* The app with a selection made and every Changed message handled.
DryRunInit ==
    /\ selected_folders \in SUBSET TreeFolders
    /\ include_root_files \in BOOLEAN
    /\ total_units >= 1
    /\ total_units <= MaxPairUnits
    /\ completed_units = 0
    /\ dry_run = FALSE
    /\ WidgetsIdle
    /\ selected_paths = <<>>
    /\ sorted_paths = <<>>
    /\ final_paths = {}
    /\ next_path = 1
    /\ canon_pc = "idle"
    /\ folders_to_process = {}
    /\ MainIdle
    /\ EnvIdle
    /\ root_is_dir = TRUE
    /\ LoopIdle

\* Run is pressed again and again, the dry-run button set either way, the
\* selection left alone.
DryRunNext ==
    \/ TuiRunStart
    \/ TuiExtract
    \/ TuiWrite
    \/ TuiNoFiles
    \/ TuiUnitError
    \/ TuiInterrupt
    \/ TuiSummary
    \/ TuiReturnRecorded

SpecDryRun == DryRunInit /\ [][DryRunNext]_vars

\* ------------------------------------------------- the settings of the app
\* The user edits the text of max_file_size_input and on_input_changed,
\* lines 611-616, handles the Changed message.
InputMaxSizeChanged ==
    /\ tui_pc = "idle"
    /\ \E text \in MaxSizeTexts :
            /\ text # max_size_input
            /\ max_size_input' = text
            /\ max_file_size_mb' = MaxSizeAtInput(text, max_file_size_mb)
    /\ UNCHANGED <<canonVars, folders_to_process, mainVars, tuiVars, historyVars>>
    /\ UNCHANGED <<configVars, runVars, prev_run>>
    /\ UNCHANGED <<listVars, loopVars, before_uncheck>>

\* The app with a selection made: the size threshold is edited and Run is
\* pressed, in any order and any number of times.
SettingsNext ==
    \/ InputMaxSizeChanged
    \/ TuiRunStart
    \/ TuiExtract
    \/ TuiWrite
    \/ TuiNoFiles
    \/ TuiUnitError
    \/ TuiInterrupt
    \/ TuiEscape
    \/ TuiSummary
    \/ TuiReturn

SpecSettings == DryRunInit /\ [][SettingsNext]_vars

\* ------------------------------------------------ the settings lists
\* The session set an attribute of item_map names (lines 655-667).
SessionSet(attr) ==
    CASE attr = "excluded_dirs" -> session_excluded_dirs
      [] attr = "excluded_filenames" -> excluded_filenames
      [] attr = "allowed_extensions" -> allowed_extensions
      [] attr = "allowed_filenames" -> allowed_filenames

\* The user toggles one item of one list: the widget changes its selection
\* and posts SelectionList.SelectedChanged.
UserToggleItem ==
    /\ tui_pc = "idle"
    /\ Len(list_events) < MaxListEvents
    /\ \E id \in ListIds : \E item \in ListItems[id] :
            /\ list_selected' =
                    [list_selected EXCEPT ![id] =
                        IF item \in @ THEN @ \ {item} ELSE @ \cup {item}]
            /\ list_events' = Append(list_events, id)
    /\ UNCHANGED <<session_excluded_dirs, excluded_filenames, allowed_extensions,
                   allowed_filenames, last_list>>
    /\ UNCHANGED <<canonVars, folders_to_process, mainVars, tuiVars, historyVars>>
    /\ UNCHANGED <<configVars, runVars, settingsVars, prev_run, loopVars, before_uncheck>>

\* on_selection_list_selected_changed, lines 618-682: the handler reads the
\* list's selection as it is now and brings the session set of that list in
\* line with it. (Every list of the app is in item_map, so the early return
\* of line 650 is never taken.)
HandleSelectedChanged ==
    /\ list_events # <<>>
    /\ LET id == Head(list_events)
           attr == ListAttr[id]
           synced == SyncedSet(SessionSet(attr), ListItems[id], list_selected[id])
       IN  /\ session_excluded_dirs' =
                    IF attr = "excluded_dirs" THEN synced ELSE session_excluded_dirs
           /\ excluded_filenames' =
                    IF attr = "excluded_filenames" THEN synced ELSE excluded_filenames
           /\ allowed_extensions' =
                    IF attr = "allowed_extensions" THEN synced ELSE allowed_extensions
           /\ allowed_filenames' =
                    IF attr = "allowed_filenames" THEN synced ELSE allowed_filenames
           /\ last_list' = id
    /\ list_events' = Tail(list_events)
    /\ UNCHANGED list_selected
    /\ UNCHANGED <<canonVars, folders_to_process, mainVars, tuiVars, historyVars>>
    /\ UNCHANGED <<configVars, runVars, settingsVars, prev_run, loopVars, before_uncheck>>

ListsNext ==
    \/ UserToggleItem
    \/ HandleSelectedChanged

SpecLists == TuiInit /\ [][ListsNext]_vars

\* ------------------------------------------------ the folder prompt
\* The prompts a run of the loop may show.
MaxPrompts == 5

\* The choices of the checkbox prompt: folders and the root sentinel.
PromptOptions == {"a", "b", "ROOT_SENTINEL"}

\* Mutant: an answered prompt leaves the confirmation as it was.
ConfirmExitKept(confirm) == confirm

\* Line 131: "confirm_exit = False" once a prompt was answered.
ConfirmExitAfterAnswer(confirm) == FALSE

\* Lines 116-118: the loop is entered with nothing selected and no
\* confirmation pending.
PromptInit ==
    /\ selected_paths = <<>>
    /\ sorted_paths = <<>>
    /\ final_paths = {}
    /\ next_path = 1
    /\ canon_pc = "idle"
    /\ folders_to_process = {}
    /\ MainIdle
    /\ TuiIdle
    /\ EnvIdle
    /\ root_is_dir = TRUE
    /\ confirm_exit = FALSE
    /\ selected_options = {}
    /\ prompt_pc = "asking"
    /\ prompt_message = "none"
    /\ answers = <<>>

\* Lines 120-130: the prompt is cancelled (ask() returns None). With the
\* confirmation pending KeyboardInterrupt is raised; otherwise the
\* confirmation is set, the warning printed and the prompt shown again.
PromptCancelled ==
    /\ prompt_pc = "asking"
    /\ Len(answers) < MaxPrompts
    /\ answers' = Append(answers, "cancelled")
    /\ IF confirm_exit
         THEN /\ prompt_pc' = "aborted"
              /\ UNCHANGED <<confirm_exit, prompt_message>>
         ELSE /\ confirm_exit' = TRUE
              /\ prompt_message' = "press_again"
              /\ UNCHANGED prompt_pc
    /\ UNCHANGED selected_options
    /\ UNCHANGED <<canonVars, folders_to_process, mainVars, tuiVars, historyVars>>
    /\ UNCHANGED <<configVars, runVars, settingsVars, prev_run, listVars, before_uncheck>>

\* Lines 120-126 and 131-136: the prompt is answered with a selection. The
\* confirmation is reset; an empty selection prints the error and the prompt
\* is shown again, any other becomes selected_options and ends the loop.
PromptAnswered ==
    /\ prompt_pc = "asking"
    /\ Len(answers) < MaxPrompts
    /\ confirm_exit' = ConfirmExitAfterAnswer(confirm_exit)
    /\ \E selection \in SUBSET PromptOptions :
            IF selection = {}
              THEN /\ answers' = Append(answers, "empty")
                   /\ prompt_message' = "must_select"
                   /\ UNCHANGED <<selected_options, prompt_pc>>
              ELSE /\ answers' = Append(answers, "chosen")
                   /\ selected_options' = selection
                   /\ prompt_pc' = "selected"
                   /\ UNCHANGED prompt_message
    /\ UNCHANGED <<canonVars, folders_to_process, mainVars, tuiVars, historyVars>>
    /\ UNCHANGED <<configVars, runVars, settingsVars, prev_run, listVars, before_uncheck>>

PromptNext ==
    \/ PromptCancelled
    \/ PromptAnswered

SpecPrompt == PromptInit /\ [][PromptNext]_vars

\* ------------------------------------------------ the checkboxes alone
\* The user unchecks one folder while "Select All Folders" is checked and no
\* message is pending; the folder and the selection of that moment are kept.
UserUncheckRecorded ==
    /\ events = <<>>
    /\ select_all_box
    /\ UserToggleFolderStep
    /\ ~events'[1].value
    /\ before_uncheck' = [path |-> events'[1].path, selected |-> selected_folders]

\* The tree tab without a run: the user clicks checkboxes and the app
\* handles the messages. After a recorded uncheck the user waits.
BoxesNext ==
    \/ before_uncheck = NoUncheck /\ UserToggleFolder
    \/ before_uncheck = NoUncheck /\ UserToggleSelectAll
    \/ before_uncheck = NoUncheck /\ UserUncheckRecorded
    \/ HandleSelectAllChanged
    \/ HandleFolderChanged

SpecBoxes == TuiInit /\ [][BoxesNext]_vars

\* ------------------------------------------ claims on the canonicalisation
ProperAncestor(q, p) == IsRelativeTo(p, q) /\ p # q

\* Every order in which the same selected paths can be supplied.
Orderings(s) ==
    LET n == Len(s)
        bijections == {f \in [1..n -> 1..n] : \A i, j \in 1..n : i # j => f[i] # f[j]}
    IN  {[i \in 1..n |-> s[f[i]]] : f \in bijections}

\* C1: when the canonicalisation of any list of selected paths is done, no
\* accepted path is a descendant of another accepted path, and every selected
\* path is equal to or a descendant of exactly one accepted path.
C1_DisjointCover ==
    canon_pc = "done" =>
        /\ \A p, q \in final_paths : p # q => ~IsRelativeTo(p, q)
        /\ \A p \in Range(selected_paths) :
                Cardinality({r \in final_paths : IsRelativeTo(p, r)}) = 1

\* A selection with two accepted paths and a dropped descendant.
C1_Witness ==
    /\ canon_pc = "done"
    /\ Cardinality(final_paths) >= 2
    /\ \E p \in Range(selected_paths) :
            p \notin final_paths /\ \E r \in final_paths : ProperAncestor(r, p)

\* C2: the canonicalisation returns exactly the selected paths that have no
\* proper ancestor among the selected paths, each once; {/a, /a/b, /c} in any
\* order, with or without repeats, yields {/a, /c}. The set is what is handed
\* on to folders_to_process.
C2_MinimalElements ==
    canon_pc = "done" =>
        /\ final_paths =
                {p \in Range(selected_paths) :
                    ~\E q \in Range(selected_paths) : ProperAncestor(q, p)}
        /\ folders_to_process = final_paths
        /\ (Range(selected_paths) = {<<"a">>, <<"a", "b">>, <<"c">>}
                => final_paths = {<<"a">>, <<"c">>})

\* The example of the claim, supplied deepest path first.
C2_Witness ==
    /\ canon_pc = "done"
    /\ selected_paths = <<<<"a", "b">>, <<"c">>, <<"a">>>>
    /\ folders_to_process = {<<"a">>, <<"c">>}

MainUnits ==
    {FolderUnit(p) : p \in folders_to_process}
        \cup (IF process_root_files THEN {RootUnit} ELSE {})

LogIndex == 1..Len(unit_log)

\* C4: whichever way the selection was made, the folders handed to the batch
\* loop never contain a folder together with one of its descendants.
C4_NoNestedUnits ==
    main_pc = "units" =>
        \A p, q \in Range(unit_order) : p # q => ~IsRelativeTo(p, q)

\* C8: a unit that fails does not end the batch: when main() is over without
\* the user having interrupted it, every unit of the batch was attempted.
C8_LaterUnitsAttempted ==
    main_pc \in {"done", "crashed"} =>
        \A u \in MainUnits : \E i \in LogIndex : unit_log[i].unit = u

\* ---------------------------------------------------- claims on the session
\* C5: 0 <= completed_units <= total_units in every state of the app.
C5_ProgressWithinTotal ==
    0 <= completed_units /\ completed_units <= total_units

\* C7: whatever is assigned through the setter, and however often, the
\* assignment leaves completed_units at most total_units; and a fresh session
\* incremented more often than it has units ends at exactly total_units.
C7_SetterClamps ==
    /\ last_op \in {"assign", "increment"} => completed_units <= total_units
    /\ (only_increments /\ increments > total_units)
            => completed_units = total_units

\* Two folders and the root files, incremented five times.
C7_Witness ==
    /\ only_increments
    /\ increments = 5
    /\ total_units = 3
    /\ completed_units = 3

\* ------------------------------------------------------ claims on the app
InRun == tui_pc \in {"running", "finished", "cancelled"}

\* The units of the batch of the app.
SessionUnits ==
    {FolderUnit(p) : p \in selected_folders}
        \cup (IF include_root_files THEN {RootUnit} ELSE {})

\* C6: within one run completed_units never decreases, and it is advanced by
\* one exactly when a unit ends, whatever the unit ended as (written, dry run,
\* no files, error, interrupted): it counts the units attempted so far.
C6_OncePerUnit ==
    /\ [](InRun => completed_units = Len(unit_log))
    /\ [][tui_pc = "running" =>
            /\ completed_units' >= completed_units
            /\ (unit_log' # unit_log) = (completed_units' = completed_units + 1)
            /\ (unit_log' = unit_log) = (completed_units' = completed_units)]_vars

\* A finished run of three units: one failed, one without files, one written.
C6_Witness ==
    /\ tui_pc = "finished"
    /\ completed_units = 3
    /\ {unit_log[i].outcome : i \in LogIndex} = {"error", "empty", "written"}

\* C9: the final summary of a run in which a unit failed says so: it is
\* neither the summary of files extracted nor "no files matched criteria".
C9_SummaryReportsFailures ==
    (tui_pc = "finished" /\ \E i \in LogIndex : unit_log[i].outcome = "error")
        => status \notin {"complete", "no_match"}

\* C10: when a batch reaches its final summary, every selected unit has been
\* attempted, each exactly once and none cut short, and completed_units
\* equals total_units.
C10_FinishedAfterAllUnits ==
    tui_pc = "finished" =>
        /\ {unit_log[i].unit : i \in LogIndex} = SessionUnits
        /\ \A i, j \in LogIndex : i # j => unit_log[i].unit # unit_log[j].unit
        /\ \A i \in LogIndex : unit_log[i].outcome # "interrupted"
        /\ completed_units = total_units

\* Every folder and the root files selected, the batch finished with a
\* failed unit among the four.
C10_Witness ==
    /\ tui_pc = "finished"
    /\ selected_folders = TreeFolders
    /\ include_root_files
    /\ Len(unit_log) = 4
    /\ \E i \in LogIndex : unit_log[i].outcome = "error"

\* ------------------------------------------------- claims on the batch order
\* C11: the units of a batch are attempted in a fixed order: the folders of
\* the loop are in strictly ascending path order, the folder units attempted
\* so far follow that order, and the root-files unit comes after every folder
\* unit: nothing is attempted after it.
C11_FixedUnitOrder ==
    /\ \A i, j \in 1..Len(unit_order) :
            i < j => PathLess(unit_order[i], unit_order[j])
    /\ \A i, j \in LogIndex :
            i < j =>
                /\ unit_log[i].unit.kind = "folder"
                /\ unit_log[j].unit.kind = "folder" =>
                        PathLess(unit_log[i].unit.path, unit_log[j].unit.path)
    /\ \A i \in LogIndex :
            unit_log[i].unit.kind = "folder" => unit_log[i].unit.path = unit_order[i]

\* A finished batch of c, a/b and the root files: a/b went first, the root
\* files last.
C11_Witness ==
    /\ main_pc = "done"
    /\ Len(unit_log) = 3
    /\ unit_log[1].unit = FolderUnit(<<"a", "b">>)
    /\ unit_log[2].unit = FolderUnit(<<"c">>)
    /\ unit_log[3].unit = RootUnit

\* ------------------------------------------------------ claims on dry runs
\* What the tree gave the unit of a log entry: the number of qualifying
\* files, or -1 for an extraction that raised.
TreeGave(entry) ==
    IF entry.outcome = "error" /\ entry.count = 0 THEN -1
    ELSE entry.count

\* The files a unit added to the total.
Counted(entry) ==
    IF entry.outcome \in {"written", "dry_run"} THEN entry.count ELSE 0

WriteFailed(entry) == entry.outcome = "error" /\ entry.count > 0

\* The run that has just finished and the finished run before it are a dry
\* run and a normal run of the same selection over the same tree.
DryAndNormalRun ==
    /\ tui_pc = "finished"
    /\ prev_run.ended = "finished"
    /\ prev_run.dry_run # dry_run
    /\ Len(prev_run.log) = Len(unit_log)
    /\ \A i \in LogIndex :
            /\ prev_run.log[i].unit = unit_log[i].unit
            /\ TreeGave(prev_run.log[i]) = TreeGave(unit_log[i])

SameStatistics ==
    /\ \A i \in LogIndex : Counted(prev_run.log[i]) = Counted(unit_log[i])
    /\ prev_run.total = total_files_extracted
    /\ prev_run.completed = completed_units

DryRunWritesNothing ==
    /\ (InRun /\ dry_run) => written = <<>>
    /\ (prev_run.ended # "none" /\ prev_run.dry_run) => prev_run.written = 0

C13_CancelBetweenUnits ==
    main_pc = "aborted" =>
        /\ \A i \in LogIndex : unit_log[i].outcome # "interrupted"
        /\ Len(written) =
                Cardinality({i \in LogIndex : unit_log[i].outcome = "written"})

\* ----------------------------------------------- claims on the configuration
\* C14: once the arguments are read, the configured output directory name is
\* in the excluded-directory set, and the folder of that name below the root
\* is never among the folder units.
C14_OutputDirExcluded ==
    main_pc # "start" =>
        /\ output_dir_name \in excluded_dirs
        /\ <<output_dir_name>> \notin folders_to_process

\* C15: a size threshold of zero or less keeps the batch from starting: no
\* unit is extracted in a run whose max_file_size_mb is not positive.
C15_NonPositiveSizeBlocksRun ==
    (InRun /\ max_file_size_mb <= 0) => (unit_log = <<>> /\ unit_count = -1)

\* C16: if the root path is not a directory, main() reports it and is over:
\* no selection is made, no unit is extracted, nothing is written, and the
\* run identity is never made; main() never gets past the check.
C16_InvalidRootEndsMain ==
    ~root_is_dir =>
        /\ main_pc \in {"start", "root", "bad_root", "aborted"}
        /\ route = "none"
        /\ folders_to_process = {} /\ ~process_root_files
        /\ unit_log = <<>> /\ unit_count = -1
        /\ written = <<>>
        /\ run_ref = 0
        /\ main_pc = "bad_root" => summary = "root_error"

\* main() has returned at line 62.
C16_Witness ==
    /\ ~root_is_dir
    /\ main_pc = "bad_root"
    /\ summary = "root_error"

\* ------------------------------------------------ claims on the documents
\* C17: every document written in a batch carries the run_ref and the
\* run_timestamp of the batch; both are made before the first unit is
\* processed and are never made again while the batch goes on.
C17_OneRunIdentity ==
    /\ [](\A i \in 1..Len(written) :
            /\ written[i].run_ref = run_ref
            /\ written[i].run_timestamp = run_timestamp)
    /\ [](main_pc \in {"selected", "units", "done", "crashed"} =>
            run_ref \in RunRefs /\ run_timestamp \in Times)
    /\ [][(main_pc = "selected" \/ main_pc = "units") =>
            (run_ref' = run_ref /\ run_timestamp' = run_timestamp)]_vars

\* Two documents of one finished batch, stamped alike.
C17_Witness ==
    /\ main_pc = "done"
    /\ Len(written) = 2
    /\ written[1].folder_name # written[2].folder_name
    /\ written[1].run_ref = 2 /\ written[2].run_ref = 2
    /\ written[1].run_timestamp = written[2].run_timestamp

\* What the header of a document is made from.
MetadataKeys ==
    {"run_ref", "run_timestamp", "folder_name", "file_count", "char_count",
     "word_count"}

\* C18: the metadata of every document written has the run reference, the
\* timestamp, the unit name, the file count, the character count and the
\* word count; the name and the file count are those of the unit.
C18_MetadataComplete ==
    \A i \in 1..Len(written) :
        /\ MetadataKeys \subseteq DOMAIN written[i]
        /\ \E j \in LogIndex :
                /\ unit_log[j].unit = written[i].folder_name
                /\ unit_log[j].count = written[i].file_count

\* ------------------------------------------------ claims on units without files
\* C19: a unit whose extraction returns no qualifying file is not an error:
\* it ends as "no files" and not as failed, no document is written for it,
\* the total stays as it is (it is the sum over the units that had files),
\* and the batch goes on to the next unit.
C19_EmptyUnitIsNotAnError ==
    /\ [](InRun =>
            /\ total_files_extracted = SumCounts(unit_log)
            /\ \A i \in LogIndex :
                    unit_log[i].outcome = "empty" =>
                        /\ unit_log[i].count = 0
                        /\ \A j \in 1..Len(written) :
                                written[j].folder_name # unit_log[i].unit)
    /\ [][(tui_pc = "running" /\ unit_count = 0 /\ unit_log' # unit_log) =>
            /\ unit_log'[Len(unit_log')].outcome \in {"empty", "interrupted"}
            /\ written' = written
            /\ total_files_extracted' = total_files_extracted
            /\ unit_log'[Len(unit_log')].outcome = "empty" =>
                    /\ tui_pc' = "running"
                    /\ status' = "no_files"
                    /\ unit_next' = unit_next + 1]_vars

\* A finished run of two units: the first had no files, the second was
\* extracted after it and its document is the only one written.
C19_Witness ==
    /\ tui_pc = "finished"
    /\ Len(unit_log) = 2
    /\ unit_log[1].outcome = "empty"
    /\ unit_log[2].outcome = "written"
    /\ Len(written) = 1
    /\ total_files_extracted = unit_log[2].count
    /\ status = "complete"

\* ------------------------------------------------ claims on the root path
\* C20: whichever way the selection is made, the root path itself is never
\* among the folder units, and it is never extracted as a folder.
C20_RootNeverFolderUnit ==
    /\ <<>> \notin folders_to_process
    /\ \A i \in LogIndex : unit_log[i].unit # FolderUnit(<<>>)

\* ------------------------------------------------ claims on the Run button
\* C21: with no folder selected and the root files not included, pressing
\* Run starts nothing: no step from such a state starts a run, processes a
\* unit or changes completed_units, and what the status then shows is the
\* request to select something. A run with the root files only ends after
\* exactly one unit, the root files.
C21_EmptySelectionBlocksRun ==
    /\ [][(tui_pc = "idle" /\ selected_folders = {} /\ ~include_root_files) =>
            /\ tui_pc' = "idle"
            /\ completed_units' = completed_units
            /\ unit_log' = unit_log /\ unit_count' = unit_count
            /\ written' = written
            /\ status' # status => status' = "please_select"]_vars
    /\ []((tui_pc = "finished" /\ unit_order = <<>>) =>
            /\ Len(unit_log) = 1
            /\ unit_log[1].unit = RootUnit
            /\ completed_units = 1)

\* After a run of one folder the folder was unchecked and Run pressed again:
\* the request is shown and completed_units is still 1.
C21_Witness ==
    /\ status = "please_select"
    /\ tui_pc = "idle"
    /\ selected_folders = {} /\ ~include_root_files
    /\ completed_units = 1
    /\ events = <<>>

\* C22: one batch at a time, one unit at a time: the Run button is disabled
\* for as long as a batch has not returned and enabled whenever none is under
\* way, however the last one ended; a batch starts only from the idle app
\* with the button enabled; and no step ends more than one unit.
C22_OneBatchAtATime ==
    /\ [](tui_pc # "idle" => run_disabled)
    /\ [](tui_pc = "idle" => ~run_disabled)
    /\ [][(tui_pc' = "running" /\ tui_pc # "running") =>
            (tui_pc = "idle" /\ ~run_disabled /\ run_disabled')]_vars
    /\ [][Len(unit_log') <= Len(unit_log) + 1]_vars

\* The batch was cancelled and has returned: the button is enabled again.
C22_Witness ==
    /\ tui_pc = "idle"
    /\ status = "cancelled"
    /\ ~run_disabled
    /\ completed_units >= 1

\* ------------------------------------------------------ claims on the total
\* C23: the total a finished batch reports is the sum of the file counts of
\* its units that were extracted with at least one file and without error;
\* units that failed or had no file add nothing, every unit is in the batch
\* once, and the summary says "complete" exactly when that sum is positive.
C23_TotalIsSumOverExtractedUnits ==
    tui_pc = "finished" =>
        /\ total_files_extracted = SumCounts(unit_log)
        /\ \A i \in LogIndex :
                unit_log[i].outcome \in {"written", "dry_run"} => unit_log[i].count > 0
        /\ \A i, j \in LogIndex : i # j => unit_log[i].unit # unit_log[j].unit
        /\ status = (IF SumCounts(unit_log) > 0 THEN "complete" ELSE "no_match")

\* A finished batch of two units with two files each: the write of the first
\* failed, the second was written; the total is 2.
C23_Witness ==
    /\ tui_pc = "finished"
    /\ Len(unit_log) = 2
    /\ unit_log[1].outcome = "error" /\ unit_log[1].count = 2
    /\ unit_log[2].outcome = "written" /\ unit_log[2].count = 2
    /\ total_files_extracted = 2

\* ------------------------------------------------ claims on the settings lists
\* C24: when on_selection_list_selected_changed has handled a change of one
\* list, every item of that list is in the list's session set exactly if it
\* is selected in the list; the other items of that set and the three other
\* session sets are as they were.
C24_ListChangeSyncsItsItemsOnly ==
    [][\A id \in ListIds :
        (list_events # <<>> /\ list_events' = Tail(list_events)
                            /\ id = Head(list_events)) =>
            /\ \A item \in ListItems[id] :
                    item \in SessionSet(ListAttr[id])' <=> item \in list_selected'[id]
            /\ SessionSet(ListAttr[id])' \ ListItems[id]
                    = SessionSet(ListAttr[id]) \ ListItems[id]
            /\ \A other \in {"excluded_dirs", "excluded_filenames",
                             "allowed_extensions", "allowed_filenames"}
                            \ {ListAttr[id]} :
                    SessionSet(other)' = SessionSet(other)]_vars

\* The change of the Flutter list that deselected ".gradle" has been handled:
\* the directory is no longer excluded, the extension of the same name is
\* still allowed and the directories of the other list are still excluded.
C24_Witness ==
    /\ last_list = "flutter_exclusions_list"
    /\ list_events = <<>>
    /\ ".gradle" \notin list_selected["flutter_exclusions_list"]
    /\ ".gradle" \notin session_excluded_dirs
    /\ ".gradle" \in allowed_extensions
    /\ {"node_modules", "vendor"} \subseteq session_excluded_dirs

\* ------------------------------------------------ claims on the folder prompt
\* C25: the prompt loop of 'specific' mode ends only with a non-empty
\* selection or with the abort. While it runs, every prompt so far was
\* cancelled or answered empty, and the confirmation is pending exactly when
\* the last prompt was cancelled: a first cancellation printed the warning,
\* an empty answer printed the error and reset the confirmation. The abort
\* is raised by a cancelled prompt whose immediately preceding prompt was
\* cancelled too, and two cancellations in a row always raise it.
C25_PromptLoopEnds ==
    LET n == Len(answers)
    IN  /\ prompt_pc \in {"asking", "selected", "aborted"}
        /\ prompt_pc = "selected" =>
                /\ n >= 1 /\ answers[n] = "chosen"
                /\ selected_options # {}
        /\ prompt_pc = "aborted" =>
                /\ n >= 2 /\ answers[n] = "cancelled" /\ answers[n - 1] = "cancelled"
                /\ selected_options = {}
        /\ prompt_pc = "asking" =>
                /\ selected_options = {}
                /\ confirm_exit <=> (n >= 1 /\ answers[n] = "cancelled")
                /\ prompt_message =
                        (IF n = 0 THEN "none"
                         ELSE IF answers[n] = "cancelled" THEN "press_again"
                         ELSE "must_select")
        /\ \A i \in 1..n :
                /\ answers[i] = "chosen" => i = n
                /\ (i < n /\ answers[i] = "cancelled" /\ answers[i + 1] = "cancelled")
                        => (i + 1 = n /\ prompt_pc = "aborted")

\* A cancelled prompt, an empty answer that resets the confirmation, then
\* two cancelled prompts in a row: only the last one aborts.
C25_Witness ==
    /\ prompt_pc = "aborted"
    /\ answers = <<"cancelled", "empty", "cancelled", "cancelled">>

\* ------------------------------------------------ claims on the checkboxes
\* C26: once the messages that follow the uncheck of one folder under a
\* checked "Select All Folders" are all handled, "Select All" is unchecked
\* and selected_folders is what it was less that one folder.
C26_UncheckRemovesOneFolder ==
    (before_uncheck # NoUncheck /\ events = <<>>) =>
        /\ ~select_all_box
        /\ selected_folders = before_uncheck.selected \ {before_uncheck.path}

\* C27: whenever every checkbox message has been handled, selected_folders
\* is exactly the set of folders whose checkbox is checked; and the handling
\* of a change of "Select All" leaves every listed folder selected when it
\* was checked and none when it was unchecked.
C27_SelectionIsCheckedBoxes ==
    /\ [](events = <<>> =>
            selected_folders = {f \in TreeFolders : folder_box[f]})
    /\ [][HandleSelectAllChanged =>
            /\ selected_folders' = (IF Head(events).value THEN TreeFolders ELSE {})
            /\ \A f \in TreeFolders : folder_box'[f] = Head(events).value]_vars

\* "Select All" was checked and every message it caused is handled: every
\* folder of the tree is checked and selected.
C27_Witness ==
    /\ events = <<>>
    /\ select_all_box
    /\ folder_box = [f \in TreeFolders |-> TRUE]
    /\ selected_folders = TreeFolders

\* ------------------------------------------------ claims on the exclusions
\* C28: no folder whose name is in the excluded-directory set of the run is
\* among the folder units, and none is extracted as a folder.
C28_NoExcludedFolderUnit ==
    /\ \A p \in folders_to_process :
            p # <<>> => p[Len(p)] \notin excluded_dirs
    /\ \A i \in LogIndex :
            (unit_log[i].unit.kind = "folder" /\ unit_log[i].unit.path # <<>>)
                => unit_log[i].unit.path[Len(unit_log[i].unit.path)] \notin excluded_dirs

\* ------------------------------------------------ claims on the progress
\* C29: every run of a session starts with completed_units at 0, whatever
\* the run before it left there, and while a run lasts the progress it
\* shows, completed_units out of total_units, is the number of units the run
\* has ended so far: k out of total_units after the k-th unit.
C29_ProgressStartsAtZero ==
    /\ [][(tui_pc = "idle" /\ tui_pc' = "running") => completed_units' = 0]_vars
    /\ [](InRun =>
            /\ completed_units = Len(unit_log)
            /\ completed_units <= total_units)
    /\ [][(InRun /\ Len(unit_log') = Len(unit_log) + 1) =>
            completed_units' = Len(unit_log')]_vars

\* A second run of a session whose first run ended with two units
\* completed: one unit of the second run has ended and the progress is 1 of 2.
C29_Witness ==
    /\ prev_run # NoRun
    /\ prev_run.completed = 2
    /\ tui_pc = "running"
    /\ Len(unit_log) = 1
    /\ completed_units = 1
    /\ total_units = 2

\* ------------------------------------------------ claims on 'everything' mode
\* C30: in 'everything' mode the folders of the batch are exactly the
\* immediate subdirectories of the root whose name is not in the excluded
\* set, the root files are part of the batch, the batch loop goes through
\* each of these folders once, and a batch that reaches its summary has
\* processed one unit for each of them and the root-files unit.
C30_EverythingIsAllButExcluded ==
    route = "everything" =>
        LET expected == {p \in MainSubdirs : p[1] \notin excluded_dirs}
        IN  /\ folders_to_process = expected
            /\ process_root_files
            /\ main_pc \in {"units", "done"} =>
                    /\ Range(unit_order) = expected
                    /\ Len(unit_order) = Cardinality(expected)
            /\ main_pc = "done" =>
                    /\ {unit_log[i].unit : i \in LogIndex}
                            = {FolderUnit(p) : p \in expected} \cup {RootUnit}
                    /\ Len(unit_log) = Cardinality(expected) + 1

\* 'everything' mode with --output-dir a has reached its summary: the units
\* were b, c, the directory of the default output name, and the root files.
C30_Witness ==
    /\ route = "everything"
    /\ main_pc = "done"
    /\ output_dir_name = "a"
    /\ folders_to_process = {<<"b">>, <<"c">>, <<OUTPUT_DIR_NAME>>}
    /\ Len(unit_log) = 4
    /\ unit_log[4].unit = RootUnit

====
